---- MODULE Spec2Model ----
(***************************************************************************)
(* PulseAudio src/pulsecore/mix.c: the mixing kernels, the dispatch table, *)
(* pa_mix and pa_volume_memchunk.                                          *)
(*                                                                         *)
(* Memory is modelled byte by byte: a buffer is a function from 0-based    *)
(* byte offsets to 0..255.  TLC integers are 32 bit wide, so a value that  *)
(* needs more (the int64_t accumulators, uint32_t words) is a pair <<h,l>> *)
(* standing for h * 65536 + l with 0 <= l < 65536.                         *)
(***************************************************************************)
EXTENDS Integers, Sequences, FiniteSets, TLC

VARIABLES
    bigendian,      \* WORDS_BIGENDIAN of the build (fixed for a behaviour)
    do_mix_table,   \* mix.c:537 format -> bound kernel
    n_acquired,     \* per memblock: acquisitions not yet released
    pc,             \* "idle", or the operation whose frame is on the stack
    args,           \* the frame's arguments
    out             \* the frame's results and what the call did

vars == <<bigendian, do_mix_table, n_acquired, pc, args, out>>

----------------------------------------------------------------------------
(* Bounds of the model *)

MaxStreams == 2
MaxChannels == 2
MaxFrames == 2
KMaxStreams == 3

----------------------------------------------------------------------------
(* sample.h / volume.h names used by mix.c *)

PA_SAMPLE_U8 == 0
PA_SAMPLE_ALAW == 1
PA_SAMPLE_ULAW == 2
PA_SAMPLE_S16LE == 3
PA_SAMPLE_S16BE == 4
PA_SAMPLE_FLOAT32LE == 5
PA_SAMPLE_FLOAT32BE == 6
PA_SAMPLE_S32LE == 7
PA_SAMPLE_S32BE == 8
PA_SAMPLE_S24LE == 9
PA_SAMPLE_S24BE == 10
PA_SAMPLE_S24_32LE == 11
PA_SAMPLE_S24_32BE == 12
PA_SAMPLE_MAX == 13

Formats == 0 .. (PA_SAMPLE_MAX - 1)

PA_SAMPLE_S16NE == IF bigendian THEN PA_SAMPLE_S16BE ELSE PA_SAMPLE_S16LE
PA_SAMPLE_S16RE == IF bigendian THEN PA_SAMPLE_S16LE ELSE PA_SAMPLE_S16BE
PA_SAMPLE_FLOAT32NE == IF bigendian THEN PA_SAMPLE_FLOAT32BE ELSE PA_SAMPLE_FLOAT32LE
PA_SAMPLE_FLOAT32RE == IF bigendian THEN PA_SAMPLE_FLOAT32LE ELSE PA_SAMPLE_FLOAT32BE
PA_SAMPLE_S32NE == IF bigendian THEN PA_SAMPLE_S32BE ELSE PA_SAMPLE_S32LE
PA_SAMPLE_S32RE == IF bigendian THEN PA_SAMPLE_S32LE ELSE PA_SAMPLE_S32BE
PA_SAMPLE_S24NE == IF bigendian THEN PA_SAMPLE_S24BE ELSE PA_SAMPLE_S24LE
PA_SAMPLE_S24RE == IF bigendian THEN PA_SAMPLE_S24LE ELSE PA_SAMPLE_S24BE
PA_SAMPLE_S24_32NE == IF bigendian THEN PA_SAMPLE_S24_32BE ELSE PA_SAMPLE_S24_32LE
PA_SAMPLE_S24_32RE == IF bigendian THEN PA_SAMPLE_S24_32LE ELSE PA_SAMPLE_S24_32BE

PA_VOLUME_MUTED == 0
PA_VOLUME_NORM == 65536
PA_CHANNELS_MAX == 32
VOLUME_PADDING == 32

\* a null pointer (an absent pa_cvolume, a cursor not yet set)
NULL == <<>>

\* pa_sample_size_of_format
pa_sample_size(f) ==
    CASE f \in {PA_SAMPLE_U8, PA_SAMPLE_ALAW, PA_SAMPLE_ULAW} -> 1
      [] f \in {PA_SAMPLE_S16LE, PA_SAMPLE_S16BE} -> 2
      [] f \in {PA_SAMPLE_S24LE, PA_SAMPLE_S24BE} -> 3
      [] OTHER -> 4

pa_frame_size(spec) == pa_sample_size(spec.format) * spec.channels

pa_frame_aligned(l, spec) == l % pa_frame_size(spec) = 0

\* the byte pa_silence_memory fills with
silence_byte(f) ==
    CASE f = PA_SAMPLE_U8 -> 128
      [] f = PA_SAMPLE_ALAW -> 213
      [] f = PA_SAMPLE_ULAW -> 255
      [] OTHER -> 0

\* memset(p, c, length) over the bytes [0, length) of p
pa_silence_memory(p, length, spec) ==
    [o \in DOMAIN p |-> IF o < length THEN silence_byte(spec.format) ELSE p[o]]

pa_cvolume_reset(channels) == [c \in 0 .. (channels - 1) |-> PA_VOLUME_NORM]

pa_cvolume_channels_equal_to(a, v) == \A c \in DOMAIN a : a[c] = v

pa_cvolume_is_muted(a) == pa_cvolume_channels_equal_to(a, PA_VOLUME_MUTED)

----------------------------------------------------------------------------
(* Fixed-width arithmetic *)

Pow2(n) == 2 ^ n

\* a wide value <<h, l>> is h * 65536 + l
WInt(x) == <<x \div 65536, x % 65536>>
WAdd(a, b) == <<a[1] + b[1] + ((a[2] + b[2]) \div 65536), (a[2] + b[2]) % 65536>>
WZero == <<0, 0>>

\* the low 32 bits of a wide value, as int32_t
Wrap32(w) == ((((w[1] + 32768) % 65536) - 32768) * 65536) + w[2]

\* int32_t a + b as two's complement hardware computes it
Add32(a, b) == Wrap32(WAdd(WInt(a), WInt(b)))

\* floor(a * b / 65536) for 0 <= a, b < 65536 (the product has 32 bits)
MulHi16(a, b) == ((((a \div 256) * b) + (((a % 256) * b) \div 256))) \div 256

\* int32_t v * cv with v of at most 16 bits and cv any int32_t
Mul32(v, cv) ==
    LET ch == cv \div 65536
        cl == cv % 65536
    IN Wrap32(WAdd(<<v * ch, 0>>, WInt(v * cl)))

\* int64_t (v * cv) >> 16 for an int32_t v = <<vh, vl>> and an int32_t cv
MulShr16(v, cv) ==
    LET ch == cv \div 65536
        cl == cv % 65536
    IN WAdd(<<v[1] * ch, 0>>,
            WAdd(WInt(v[1] * cl), WAdd(WInt(v[2] * ch), WInt(MulHi16(v[2], cl)))))

S16(u) == IF u >= 32768 THEN u - 65536 ELSE u
U16(x) == x % 65536
Swap16(u) == ((u % 256) * 256) + (u \div 256)

\* uint32_t words <<hu, lu>> with both halves in 0..65535
PA_UINT32_SWAP(u) == <<Swap16(u[2]), Swap16(u[1])>>
Shl8(u) == <<((u[1] % 256) * 256) + (u[2] \div 256), (u[2] % 256) * 256>>
Shr8(u) == <<u[1] \div 256, ((u[1] % 256) * 256) + (u[2] \div 256)>>
AsInt32(u) == <<S16(u[1]), u[2]>>
AsUInt32(w) == <<U16(w[1]), w[2]>>

----------------------------------------------------------------------------
(* endianmacros.h: loads and stores in the build's byte order *)

LoadU16NE(mem, p) ==
    IF bigendian THEN (mem[p] * 256) + mem[p + 1] ELSE (mem[p + 1] * 256) + mem[p]

Load32NE(mem, p) ==
    IF bigendian
    THEN <<(mem[p] * 256) + mem[p + 1], (mem[p + 2] * 256) + mem[p + 3]>>
    ELSE <<(mem[p + 3] * 256) + mem[p + 2], (mem[p + 1] * 256) + mem[p]>>

Store16NE(data, d, u) ==
    IF bigendian
    THEN [data EXCEPT ![d] = u \div 256, ![d + 1] = u % 256]
    ELSE [data EXCEPT ![d] = u % 256, ![d + 1] = u \div 256]

Store32NE(data, d, u) ==
    IF bigendian
    THEN [data EXCEPT ![d] = u[1] \div 256, ![d + 1] = u[1] % 256,
                      ![d + 2] = u[2] \div 256, ![d + 3] = u[2] % 256]
    ELSE [data EXCEPT ![d] = u[2] % 256, ![d + 1] = u[2] \div 256,
                      ![d + 2] = u[1] % 256, ![d + 3] = u[1] \div 256]

PA_READ24BE(mem, p) == <<mem[p], (mem[p + 1] * 256) + mem[p + 2]>>
PA_READ24LE(mem, p) == <<mem[p + 2], (mem[p + 1] * 256) + mem[p]>>
PA_WRITE24BE(data, d, u) ==
    [data EXCEPT ![d] = u[1] % 256, ![d + 1] = u[2] \div 256, ![d + 2] = u[2] % 256]
PA_WRITE24LE(data, d, u) ==
    [data EXCEPT ![d] = u[2] % 256, ![d + 1] = u[2] \div 256, ![d + 2] = u[1] % 256]

PA_READ24NE(mem, p) == IF bigendian THEN PA_READ24BE(mem, p) ELSE PA_READ24LE(mem, p)
PA_READ24RE(mem, p) == IF bigendian THEN PA_READ24LE(mem, p) ELSE PA_READ24BE(mem, p)
PA_WRITE24NE(data, d, u) ==
    IF bigendian THEN PA_WRITE24BE(data, d, u) ELSE PA_WRITE24LE(data, d, u)
PA_WRITE24RE(data, d, u) ==
    IF bigendian THEN PA_WRITE24LE(data, d, u) ELSE PA_WRITE24BE(data, d, u)

----------------------------------------------------------------------------
(* g711.h: the companding codecs *)

RECURSIVE BitXor(_, _, _)
BitXor(a, b, n) ==
    IF n = 0 THEN 0
    ELSE (((a % 2) + (b % 2)) % 2) + (2 * BitXor(a \div 2, b \div 2, n - 1))

seg_uend == <<63, 127, 255, 511, 1023, 2047, 4095, 8191>>
seg_aend == <<31, 63, 127, 255, 511, 1023, 2047, 4095>>

\* search(): the first segment whose end is >= val, or size
search(val, table) ==
    IF \E i \in 1 .. Len(table) : val <= table[i]
    THEN (CHOOSE i \in 1 .. Len(table) :
              val <= table[i] /\ \A j \in 1 .. (i - 1) : val > table[j]) - 1
    ELSE Len(table)

st_ulaw2linear16(u) ==
    LET u_val == 255 - u
        t == ((((u_val % 16) * 8) + 132) * Pow2((u_val % 128) \div 16))
    IN IF u_val >= 128 THEN 132 - t ELSE t - 132

st_14linear2ulaw(pcm) ==
    LET mask == IF pcm < 0 THEN 127 ELSE 255
        mag == IF pcm < 0 THEN -pcm ELSE pcm
        val == (IF mag > 8159 THEN 8159 ELSE mag) + 33
        seg == search(val, seg_uend)
    IN IF seg >= 8 THEN BitXor(127, mask, 8)
       ELSE BitXor((seg * 16) + ((val \div Pow2(seg + 1)) % 16), mask, 8)

st_alaw2linear16(a) ==
    LET a_val == BitXor(a, 85, 8)
        t0 == (a_val % 16) * 16
        seg == (a_val % 128) \div 16
        t == CASE seg = 0 -> t0 + 8
               [] seg = 1 -> t0 + 264
               [] OTHER -> (t0 + 264) * Pow2(seg - 1)
    IN IF a_val >= 128 THEN t ELSE -t

st_13linear2alaw(pcm) ==
    LET mask == IF pcm >= 0 THEN 213 ELSE 85
        val == IF pcm >= 0 THEN pcm ELSE (-pcm) - 1
        seg == search(val, seg_aend)
        aval == IF seg < 2 THEN (seg * 16) + ((val \div 2) % 16)
                ELSE (seg * 16) + ((val \div Pow2(seg)) % 16)
    IN IF seg >= 8 THEN BitXor(127, mask, 8) ELSE BitXor(aval, mask, 8)

----------------------------------------------------------------------------
(* float and double values: <<m, e>> is m * 2^e, m odd or <<0, 0>>.  Only   *)
(* values a float holds exactly are in the model's inputs; a result that   *)
(* would need rounding is "inexact" and stops the evaluation.              *)

RECURSIVE FNorm(_)
FNorm(x) ==
    IF x[1] = 0 THEN <<0, 0>>
    ELSE IF x[1] % 2 = 0 THEN FNorm(<<x[1] \div 2, x[2] + 1>>) ELSE x

Abs(m) == IF m < 0 THEN -m ELSE m

BitLen(m) == CHOOSE n \in 1 .. 31 : Pow2(n - 1) <= m /\ (n = 31 \/ m < Pow2(n))

IsFloat32(x) ==
    \/ x = <<0, 0>>
    \/ /\ Abs(x[1]) < Pow2(24)
       /\ x[2] + BitLen(Abs(x[1])) - 1 \in (-126) .. 127

F32(x) == LET n == FNorm(x) IN IF IsFloat32(n) THEN n ELSE "inexact"

FMul(a, b) == F32(<<a[1] * b[1], a[2] + b[2]>>)

FAdd(a, b) ==
    IF a[1] = 0 THEN b
    ELSE IF b[1] = 0 THEN a
    ELSE LET e == IF a[2] < b[2] THEN a[2] ELSE b[2]
         IN F32(<<(a[1] * Pow2(a[2] - e)) + (b[1] * Pow2(b[2] - e)), e>>)

\* the IEEE 754 binary32 word <<hu, lu>> of a value, and back
FloatBits(x) ==
    IF x[1] = 0 THEN <<0, 0>>
    ELSE LET n == BitLen(Abs(x[1]))
             man == (Abs(x[1]) * Pow2(24 - n)) - Pow2(23)
             exp8 == x[2] + n + 126
         IN <<((IF x[1] < 0 THEN 32768 ELSE 0) + (exp8 * 128)) + (man \div 65536),
              man % 65536>>

BitsFloat(u) ==
    LET exp8 == (u[1] % 32768) \div 128
        man == ((u[1] % 128) * 65536) + u[2]
        m == Pow2(23) + man
    IN IF exp8 = 0 /\ man = 0 THEN <<0, 0>>
       ELSE IF exp8 = 0 \/ exp8 = 255 THEN "inexact"
       ELSE FNorm(<<IF u[1] >= 32768 THEN -m ELSE m, exp8 - 150>>)

\* lrint() of a value: round to nearest, ties to even
lrint(x) ==
    IF x[2] >= 0 THEN x[1] * Pow2(x[2])
    ELSE LET q == Pow2(-x[2])
             f == x[1] \div q
             r == x[1] % q
         IN IF (2 * r) > q \/ ((2 * r) = q /\ f % 2 = 1) THEN f + 1 ELSE f

\* volume.c: the cubic curve (v / PA_VOLUME_NORM)^3, exact for the levels
\* of the model, which are multiples of PA_VOLUME_NORM / 2
pa_sw_volume_to_linear(v) ==
    LET k == v \div 32768
    IN IF v % 32768 = 0 THEN FNorm(<<k * k * k, -3>>) ELSE "inexact"

----------------------------------------------------------------------------
(* The mixing kernels, mix.c:125-535.                                      *)
(*                                                                         *)
(* A stream m is [mem, ptr, linear, rd]: the bytes of its memblock, the    *)
(* read cursor m->ptr as an offset into them, the gains m->linear[] and    *)
(* the set of offsets the kernel has read.  A kernel returns the streams,  *)
(* the destination bytes and the set of destination offsets it wrote.      *)

Kernels == {"pa_mix_u8_c", "pa_mix_alaw_c", "pa_mix_ulaw_c",
            "pa_mix_s16ne_c", "pa_mix_s16re_c",
            "pa_mix_float32ne_c", "pa_mix_float32re_c",
            "pa_mix_s32ne_c", "pa_mix_s32re_c",
            "pa_mix_s24ne_c", "pa_mix_s24re_c",
            "pa_mix_s24_32ne_c", "pa_mix_s24_32re_c"}

Int32Kernels == {"pa_mix_u8_c", "pa_mix_alaw_c", "pa_mix_ulaw_c",
                 "pa_mix_s16ne_c", "pa_mix_s16re_c"}
FloatKernels == {"pa_mix_float32ne_c", "pa_mix_float32re_c"}
Int64Kernels == (Kernels \ Int32Kernels) \ FloatKernels

\* the declaration of sum: int32_t, int64_t or float
SumZero(k) ==
    CASE k \in Int32Kernels -> 0
      [] k \in FloatKernels -> <<0, 0>>
      [] OTHER -> WZero

\* the test cv > 0 on m->linear[channel].i or .f
GainPositive(k, cv) == IF k \in FloatKernels THEN cv[1] > 0 ELSE cv > 0

\* the number of bytes the load at m->ptr reads
LoadWidth(k) ==
    CASE k \in {"pa_mix_u8_c", "pa_mix_alaw_c", "pa_mix_ulaw_c"} -> 1
      [] k \in {"pa_mix_s16ne_c", "pa_mix_s16re_c"} -> 2
      [] k \in {"pa_mix_s24ne_c", "pa_mix_s24re_c"} -> 3
      [] OTHER -> 4

\* v = <the sample at m->ptr>
Load(k, mem, p) ==
    CASE k = "pa_mix_s16ne_c" -> S16(LoadU16NE(mem, p))
      [] k = "pa_mix_s16re_c" -> S16(Swap16(LoadU16NE(mem, p)))
      [] k = "pa_mix_s32ne_c" -> AsInt32(Load32NE(mem, p))
      [] k = "pa_mix_s32re_c" -> AsInt32(PA_UINT32_SWAP(Load32NE(mem, p)))
      [] k = "pa_mix_s24ne_c" -> AsInt32(Shl8(PA_READ24NE(mem, p)))
      [] k = "pa_mix_s24re_c" -> AsInt32(Shl8(PA_READ24RE(mem, p)))
      [] k = "pa_mix_s24_32ne_c" -> AsInt32(Shl8(Load32NE(mem, p)))
      [] k = "pa_mix_s24_32re_c" -> AsInt32(Shl8(PA_UINT32_SWAP(Load32NE(mem, p))))
      [] k = "pa_mix_u8_c" -> mem[p] - 128
      [] k = "pa_mix_ulaw_c" -> st_ulaw2linear16(mem[p])
      [] k = "pa_mix_alaw_c" -> st_alaw2linear16(mem[p])
      [] k = "pa_mix_float32ne_c" -> BitsFloat(Load32NE(mem, p))
      [] k = "pa_mix_float32re_c" -> BitsFloat(PA_UINT32_SWAP(Load32NE(mem, p)))

\* v = ((v * lo) >> 16) + (v * hi) with hi = cv >> 16, lo = cv & 0xFFFF
ScaleHiLo(v, cv) == ((v * (cv % 65536)) \div 65536) + (v * (cv \div 65536))

\* the gain applied to the loaded sample
Scale(k, v, cv) ==
    CASE k \in {"pa_mix_s16ne_c", "pa_mix_s16re_c",
                "pa_mix_ulaw_c", "pa_mix_alaw_c"} -> ScaleHiLo(v, cv)
      [] k = "pa_mix_u8_c" -> Mul32(v, cv) \div 65536
      [] k \in FloatKernels -> FMul(v, cv)
      [] OTHER -> MulShr16(v, cv)

\* sum += v
Accumulate(k, sum, v) ==
    CASE k \in Int32Kernels -> Add32(sum, v)
      [] k \in FloatKernels -> FAdd(sum, v)
      [] OTHER -> WAdd(sum, v)

PA_CLAMP_UNLIKELY(x, low, high) == IF x > high THEN high ELSE IF x < low THEN low ELSE x

\* PA_CLAMP_UNLIKELY(sum, -0x80000000LL, 0x7FFFFFFFLL)
Clamp64(w) ==
    IF w[1] > 32767 THEN <<32767, 65535>>
    ELSE IF w[1] < -32768 THEN <<-32768, 0>>
    ELSE w

\* the clamp giving the 8 bit format the 16 bit range
Clamp_U8Wide(k, sum) ==
    CASE k \in Int32Kernels -> PA_CLAMP_UNLIKELY(sum, -32768, 32767)
      [] k \in FloatKernels -> sum
      [] OTHER -> Clamp64(sum)

\* sum = PA_CLAMP_UNLIKELY(sum, ...)
Clamp(k, sum) ==
    CASE k = "pa_mix_u8_c" -> PA_CLAMP_UNLIKELY(sum, -128, 127)
      [] k \in Int32Kernels -> PA_CLAMP_UNLIKELY(sum, -32768, 32767)
      [] k \in FloatKernels -> sum
      [] OTHER -> Clamp64(sum)

\* the number of bytes the store at data writes
StoreWidth(k) == LoadWidth(k)

\* *data = <the clamped sum>
Store(k, data, d, sum) ==
    CASE k = "pa_mix_s16ne_c" -> Store16NE(data, d, U16(sum))
      [] k = "pa_mix_s16re_c" -> Store16NE(data, d, Swap16(U16(sum)))
      [] k = "pa_mix_s32ne_c" -> Store32NE(data, d, AsUInt32(sum))
      [] k = "pa_mix_s32re_c" -> Store32NE(data, d, PA_UINT32_SWAP(AsUInt32(sum)))
      [] k = "pa_mix_s24ne_c" -> PA_WRITE24NE(data, d, Shr8(AsUInt32(sum)))
      [] k = "pa_mix_s24re_c" -> PA_WRITE24RE(data, d, Shr8(AsUInt32(sum)))
      [] k = "pa_mix_s24_32ne_c" -> Store32NE(data, d, Shr8(AsUInt32(sum)))
      [] k = "pa_mix_s24_32re_c" ->
            Store32NE(data, d, PA_UINT32_SWAP(Shr8(AsUInt32(sum))))
      [] k = "pa_mix_u8_c" -> [data EXCEPT ![d] = (sum + 128) % 256]
      [] k = "pa_mix_ulaw_c" -> [data EXCEPT ![d] = st_14linear2ulaw(sum \div 4)]
      [] k = "pa_mix_alaw_c" -> [data EXCEPT ![d] = st_13linear2alaw(sum \div 8)]
      [] k = "pa_mix_float32ne_c" -> Store32NE(data, d, FloatBits(sum))
      [] k = "pa_mix_float32re_c" -> Store32NE(data, d, PA_UINT32_SWAP(FloatBits(sum)))

\* m->ptr = (uint8_t*) m->ptr + <step>
PtrStep(k) ==
    CASE k \in {"pa_mix_u8_c", "pa_mix_alaw_c", "pa_mix_ulaw_c"} -> 1
      [] k \in {"pa_mix_s16ne_c", "pa_mix_s16re_c"} -> 2
      [] k \in {"pa_mix_s24ne_c", "pa_mix_s24re_c"} -> 3
      [] k = "pa_mix_s24_32re_c" -> 3
      [] OTHER -> 4

\* data = (uint8_t*) data + <step>
DataStep(k) ==
    CASE k \in {"pa_mix_u8_c", "pa_mix_alaw_c", "pa_mix_ulaw_c"} -> 1
      [] k \in {"pa_mix_s16ne_c", "pa_mix_s16re_c"} -> 2
      [] k \in {"pa_mix_s24ne_c", "pa_mix_s24re_c"} -> 3
      [] OTHER -> 4

\* one pass of the body of the loop over the streams; st is [streams, i, sum]
StreamStep(k, channel, st) ==
    LET m == st.streams[st.i]
        cv == m.linear[channel]
        hit == GainPositive(k, cv)
    IN [streams |-> [st.streams EXCEPT ![st.i] =
                        [m EXCEPT !.ptr = @ + PtrStep(k),
                                  !.rd = IF hit
                                         THEN @ \cup (m.ptr .. (m.ptr + LoadWidth(k) - 1))
                                         ELSE @]],
        i |-> st.i + 1,
        sum |-> IF hit THEN Accumulate(k, st.sum, Scale(k, Load(k, m.mem, m.ptr), cv))
                ELSE st.sum]

\* for (i = 0; i < nstreams; i++) { ... }
RECURSIVE StreamLoop(_, _, _, _)
StreamLoop(k, nstreams, channel, st) ==
    IF st.i >= nstreams THEN st
    ELSE StreamLoop(k, nstreams, channel, StreamStep(k, channel, st))

\* one pass of the body of the loop over the output samples; st is
\* [streams, data, d, channel, wr], d being the offset of the data pointer
SampleStep(k, nstreams, channels, st) ==
    LET r == StreamLoop(k, nstreams, st.channel,
                        [streams |-> st.streams, i |-> 0, sum |-> SumZero(k)])
    IN [streams |-> r.streams,
        data |-> Store(k, st.data, st.d, Clamp(k, r.sum)),
        d |-> st.d + DataStep(k),
        channel |-> IF st.channel + 1 >= channels THEN 0 ELSE st.channel + 1,
        wr |-> st.wr \cup (st.d .. (st.d + StoreWidth(k) - 1))]

\* while (data < end) { ... }
RECURSIVE SampleLoop(_, _, _, _, _)
SampleLoop(k, nstreams, channels, end, st) ==
    IF ~(st.d < end) THEN st
    ELSE SampleLoop(k, nstreams, channels, end, SampleStep(k, nstreams, channels, st))

\* the locals of a kernel at its entry: unsigned channel = 0
KernelEntry(streams, data) ==
    [streams |-> streams, data |-> data, d |-> 0, channel |-> 0, wr |-> {}]

pa_mix_s16ne_c(streams, nstreams, channels, data, end) ==
    SampleLoop("pa_mix_s16ne_c", nstreams, channels, end, KernelEntry(streams, data))
pa_mix_s16re_c(streams, nstreams, channels, data, end) ==
    SampleLoop("pa_mix_s16re_c", nstreams, channels, end, KernelEntry(streams, data))
pa_mix_s32ne_c(streams, nstreams, channels, data, end) ==
    SampleLoop("pa_mix_s32ne_c", nstreams, channels, end, KernelEntry(streams, data))
pa_mix_s32re_c(streams, nstreams, channels, data, end) ==
    SampleLoop("pa_mix_s32re_c", nstreams, channels, end, KernelEntry(streams, data))
pa_mix_s24ne_c(streams, nstreams, channels, data, end) ==
    SampleLoop("pa_mix_s24ne_c", nstreams, channels, end, KernelEntry(streams, data))
pa_mix_s24re_c(streams, nstreams, channels, data, end) ==
    SampleLoop("pa_mix_s24re_c", nstreams, channels, end, KernelEntry(streams, data))
pa_mix_s24_32ne_c(streams, nstreams, channels, data, end) ==
    SampleLoop("pa_mix_s24_32ne_c", nstreams, channels, end, KernelEntry(streams, data))
pa_mix_s24_32re_c(streams, nstreams, channels, data, end) ==
    SampleLoop("pa_mix_s24_32re_c", nstreams, channels, end, KernelEntry(streams, data))
pa_mix_u8_c(streams, nstreams, channels, data, end) ==
    SampleLoop("pa_mix_u8_c", nstreams, channels, end, KernelEntry(streams, data))
pa_mix_ulaw_c(streams, nstreams, channels, data, end) ==
    SampleLoop("pa_mix_ulaw_c", nstreams, channels, end, KernelEntry(streams, data))
pa_mix_alaw_c(streams, nstreams, channels, data, end) ==
    SampleLoop("pa_mix_alaw_c", nstreams, channels, end, KernelEntry(streams, data))
pa_mix_float32ne_c(streams, nstreams, channels, data, end) ==
    SampleLoop("pa_mix_float32ne_c", nstreams, channels, end, KernelEntry(streams, data))
pa_mix_float32re_c(streams, nstreams, channels, data, end) ==
    SampleLoop("pa_mix_float32re_c", nstreams, channels, end, KernelEntry(streams, data))

\* the call of a kernel through its pa_do_mix_func_t pointer
do_mix(k, streams, nstreams, channels, data, end) ==
    CASE k = "pa_mix_s16ne_c" -> pa_mix_s16ne_c(streams, nstreams, channels, data, end)
      [] k = "pa_mix_s16re_c" -> pa_mix_s16re_c(streams, nstreams, channels, data, end)
      [] k = "pa_mix_s32ne_c" -> pa_mix_s32ne_c(streams, nstreams, channels, data, end)
      [] k = "pa_mix_s32re_c" -> pa_mix_s32re_c(streams, nstreams, channels, data, end)
      [] k = "pa_mix_s24ne_c" -> pa_mix_s24ne_c(streams, nstreams, channels, data, end)
      [] k = "pa_mix_s24re_c" -> pa_mix_s24re_c(streams, nstreams, channels, data, end)
      [] k = "pa_mix_s24_32ne_c" -> pa_mix_s24_32ne_c(streams, nstreams, channels, data, end)
      [] k = "pa_mix_s24_32re_c" -> pa_mix_s24_32re_c(streams, nstreams, channels, data, end)
      [] k = "pa_mix_u8_c" -> pa_mix_u8_c(streams, nstreams, channels, data, end)
      [] k = "pa_mix_ulaw_c" -> pa_mix_ulaw_c(streams, nstreams, channels, data, end)
      [] k = "pa_mix_alaw_c" -> pa_mix_alaw_c(streams, nstreams, channels, data, end)
      [] k = "pa_mix_float32ne_c" -> pa_mix_float32ne_c(streams, nstreams, channels, data, end)
      [] k = "pa_mix_float32re_c" -> pa_mix_float32re_c(streams, nstreams, channels, data, end)

\* mix.c:537 the initial do_mix_table
do_mix_table_init ==
    [f \in Formats |->
        CASE f = PA_SAMPLE_U8 -> "pa_mix_u8_c"
          [] f = PA_SAMPLE_ALAW -> "pa_mix_alaw_c"
          [] f = PA_SAMPLE_ULAW -> "pa_mix_ulaw_c"
          [] f = PA_SAMPLE_S16NE -> "pa_mix_s16ne_c"
          [] f = PA_SAMPLE_S16RE -> "pa_mix_s16re_c"
          [] f = PA_SAMPLE_FLOAT32NE -> "pa_mix_float32ne_c"
          [] f = PA_SAMPLE_FLOAT32RE -> "pa_mix_float32re_c"
          [] f = PA_SAMPLE_S32NE -> "pa_mix_s32ne_c"
          [] f = PA_SAMPLE_S32RE -> "pa_mix_s32re_c"
          [] f = PA_SAMPLE_S24NE -> "pa_mix_s24ne_c"
          [] f = PA_SAMPLE_S24RE -> "pa_mix_s24re_c"
          [] f = PA_SAMPLE_S24_32NE -> "pa_mix_s24_32ne_c"
          [] f = PA_SAMPLE_S24_32RE -> "pa_mix_s24_32re_c"]

----------------------------------------------------------------------------
(* The volume linearizer and the stream gain calculator, mix.c:39-123 *)

Uninit == "uninit"

DMul(a, b) == FNorm(<<a[1] * b[1], a[2] + b[2]>>)

\* the padding pass repeating the last channel
PaddingStep_RepeatsLast(st) ==
    [linear |-> [st.linear EXCEPT ![st.channel] = st.linear[st.channel - 1]],
     channel |-> st.channel + 1, padding |-> st.padding + 1]

\* linear[channel] = linear[padding];  then padding++, channel++
PaddingStep(st) ==
    [linear |-> [st.linear EXCEPT ![st.channel] = st.linear[st.padding]],
     channel |-> st.channel + 1, padding |-> st.padding + 1]

\* for (padding = 0; padding < VOLUME_PADDING; padding++, channel++) ...
\* The passes with padding below hi, in order: the first half of them, then
\* the rest.  st is [linear, channel, padding].
RECURSIVE PaddingLoop(_, _)
PaddingLoop(st, hi) ==
    IF ~(st.padding < hi) THEN st
    ELSE IF st.padding + 1 = hi THEN PaddingStep(st)
    ELSE PaddingLoop(PaddingLoop(st, (st.padding + hi) \div 2), hi)

LinearArray == [c \in 0 .. (PA_CHANNELS_MAX + VOLUME_PADDING - 1) |-> Uninit]

calc_linear_integer_volume(volume) ==
    LET nchannels == Cardinality(DOMAIN volume)
        real == [c \in DOMAIN LinearArray |->
                    IF c < nchannels
                    THEN lrint(DMul(pa_sw_volume_to_linear(volume[c]), <<1, 16>>))
                    ELSE LinearArray[c]]
    IN PaddingLoop([linear |-> real, channel |-> nchannels, padding |-> 0],
                   VOLUME_PADDING).linear

calc_linear_float_volume(volume) ==
    LET nchannels == Cardinality(DOMAIN volume)
        real == [c \in DOMAIN LinearArray |->
                    IF c < nchannels THEN F32(pa_sw_volume_to_linear(volume[c]))
                    ELSE LinearArray[c]]
    IN PaddingLoop([linear |-> real, channel |-> nchannels, padding |-> 0],
                   VOLUME_PADDING).linear

calc_linear_integer_stream_volumes(streams, nstreams, volume, spec) ==
    LET linear == calc_linear_float_volume(volume)
    IN [k \in DOMAIN streams |->
          IF k < nstreams
          THEN [streams[k] EXCEPT !.linear =
                   [channel \in 0 .. (spec.channels - 1) |->
                       lrint(DMul(DMul(pa_sw_volume_to_linear(streams[k].volume[channel]),
                                       linear[channel]), <<1, 16>>))]]
          ELSE streams[k]]

calc_linear_float_stream_volumes(streams, nstreams, volume, spec) ==
    LET linear == calc_linear_float_volume(volume)
    IN [k \in DOMAIN streams |->
          IF k < nstreams
          THEN [streams[k] EXCEPT !.linear =
                   [channel \in 0 .. (spec.channels - 1) |->
                       F32(DMul(pa_sw_volume_to_linear(streams[k].volume[channel]),
                                linear[channel]))]]
          ELSE streams[k]]

IsFloatFormat(f) == f \in {PA_SAMPLE_FLOAT32LE, PA_SAMPLE_FLOAT32BE}

\* calc_stream_volumes_table[spec->format](streams, nstreams, volume, spec)
calc_stream_volumes_table(f, streams, nstreams, volume, spec) ==
    IF IsFloatFormat(f)
    THEN calc_linear_float_stream_volumes(streams, nstreams, volume, spec)
    ELSE calc_linear_integer_stream_volumes(streams, nstreams, volume, spec)

\* calc_volume_table[spec->format](linear, volume)
calc_volume_table(f, volume) ==
    IF IsFloatFormat(f) THEN calc_linear_float_volume(volume)
    ELSE calc_linear_integer_volume(volume)

----------------------------------------------------------------------------
(* pa_mix, mix.c:553-594.  The call is one step; trace lists what it did   *)
(* in order, acq counts the acquisitions of each memblock still held, call *)
(* holds the arguments of the kernel call (data and end as offsets into    *)
(* the destination).                                                       *)

\* the test without its volume operand
MixSilenced_IgnoresVolume(mute, volume, nstreams) == mute \/ nstreams <= 0

\* if (mute || pa_cvolume_is_muted(volume) || nstreams <= 0)
MixSilenced(mute, volume, nstreams) ==
    mute \/ pa_cvolume_is_muted(volume) \/ nstreams <= 0

\* streams[k].ptr = pa_memblock_acquire_chunk(&streams[k].chunk);
\* if (length > streams[k].chunk.length) length = streams[k].chunk.length;
RECURSIVE AcquireLoop(_, _, _, _, _, _)
AcquireLoop(streams, nstreams, k, length, acq, trace) ==
    IF ~(k < nstreams)
    THEN [streams |-> streams, length |-> length, acq |-> acq, trace |-> trace]
    ELSE LET c == streams[k].chunk
         IN AcquireLoop([streams EXCEPT ![k].ptr = c.index], nstreams, k + 1,
                        IF length > c.length THEN c.length ELSE length,
                        [acq EXCEPT ![c.memblock] = @ + 1],
                        Append(trace, <<"acquire", c.memblock>>))

\* the release loop stopping one stream early
RECURSIVE ReleaseLoop_StopsEarly(_, _, _, _, _)
ReleaseLoop_StopsEarly(streams, nstreams, k, acq, trace) ==
    IF ~(k < nstreams - 1) THEN [acq |-> acq, trace |-> trace]
    ELSE LET b == streams[k].chunk.memblock
         IN ReleaseLoop_StopsEarly(streams, nstreams, k + 1, [acq EXCEPT ![b] = @ - 1],
                                   Append(trace, <<"release", b>>))

\* for (k = 0; k < nstreams; k++) pa_memblock_release(streams[k].chunk.memblock);
RECURSIVE ReleaseLoop(_, _, _, _, _)
ReleaseLoop(streams, nstreams, k, acq, trace) ==
    IF ~(k < nstreams) THEN [acq |-> acq, trace |-> trace]
    ELSE LET b == streams[k].chunk.memblock
         IN ReleaseLoop(streams, nstreams, k + 1, [acq EXCEPT ![b] = @ - 1],
                        Append(trace, <<"release", b>>))

\* return length;  with what the call did: a is the outcome of the acquire
\* loop, g the streams with their gains, m the outcome of the kernel, r the
\* outcome of the release loop
MixReturn(table, nstreams, spec, a, g, m, r) ==
    [ret |-> a.length, data |-> m.data, wr |-> m.wr, streams |-> m.streams,
     acq |-> r.acq, trace |-> r.trace,
     call |-> [kernel |-> table[spec.format], streams |-> g,
               nstreams |-> nstreams, channels |-> spec.channels,
               data |-> 0, end |-> a.length]]

\* the release loop, after the kernel
MixRelease(table, nstreams, spec, a, g, m) ==
    MixReturn(table, nstreams, spec, a, g, m,
              ReleaseLoop(m.streams, nstreams, 0, a.acq,
                          a.trace \o <<<<"calc_stream_volumes", spec.format>>,
                                       <<"do_mix", spec.format>>>>))

\* end = (uint8_t*) data + length;
\* do_mix_table[spec->format](streams, nstreams, spec->channels, data, end);
MixKernel(table, nstreams, data, spec, a, g) ==
    MixRelease(table, nstreams, spec, a, g,
               do_mix(table[spec.format], g, nstreams, spec.channels, data, a.length))

\* calc_stream_volumes_table[spec->format](streams, nstreams, volume, spec);
MixVolumes(table, nstreams, data, spec, vol, a) ==
    MixKernel(table, nstreams, data, spec, a,
              calc_stream_volumes_table(spec.format, a.streams, nstreams, vol, spec))

\* pa_mix past the test of its arguments, vol being the volume in force
MixBody(table, acq, streams, nstreams, data, length, spec, vol, mute) ==
    IF MixSilenced(mute, vol, nstreams)
    THEN [ret |-> length, data |-> pa_silence_memory(data, length, spec),
          wr |-> 0 .. (length - 1), streams |-> streams, acq |-> acq,
          trace |-> <<>>, call |-> NULL]
    ELSE MixVolumes(table, nstreams, data, spec, vol,
                    AcquireLoop(streams, nstreams, 0, length, acq, <<>>))

pa_mix(table, acq, streams, nstreams, data, length, spec, volume, mute) ==
    MixBody(table, acq, streams, nstreams, data, length, spec,
            IF volume = NULL THEN pa_cvolume_reset(spec.channels) ELSE volume, mute)

----------------------------------------------------------------------------
(* pa_get_mix_func / pa_set_mix_func, mix.c:596-608 *)

\* pa_assert(f >= 0); pa_assert(f < PA_SAMPLE_MAX);
FormatAsserted(f) == f >= 0 /\ f < PA_SAMPLE_MAX

pa_get_mix_func(table, f) == table[f]

\* the store going to the slot after f
pa_set_mix_func_WrongSlot(table, f, func) ==
    IF f + 1 \in DOMAIN table THEN [table EXCEPT ![f + 1] = func] ELSE table

pa_set_mix_func(table, f, func) == [table EXCEPT ![f] = func]

----------------------------------------------------------------------------
(* pa_volume_memchunk, mix.c:633-668 *)

\* sample-util.c: one volume kernel per format, scaling the chunk in place
RECURSIVE VolumeLoop(_, _, _, _, _)
VolumeLoop(k, linear, channels, end, st) ==
    IF ~(st.d < end) THEN st.mem
    ELSE VolumeLoop(k, linear, channels, end,
                    [mem |-> Store(k, st.mem, st.d,
                                   Clamp(k, Scale(k, Load(k, st.mem, st.d),
                                                  linear[st.channel]))),
                     d |-> st.d + DataStep(k),
                     channel |-> IF st.channel + 1 >= channels THEN 0 ELSE st.channel + 1])

do_volume(f, mem, ptr, linear, channels, length) ==
    VolumeLoop(do_mix_table_init[f], linear, channels, ptr + length,
               [mem |-> mem, d |-> ptr, channel |-> 0])

\* pa_silence_memchunk(c, spec)
pa_silence_memchunk(mem, c, spec) ==
    [o \in DOMAIN mem |->
        IF o >= c.index /\ o < c.index + c.length THEN silence_byte(spec.format)
        ELSE mem[o]]

\* block is [mem, is_silence]: the memblock of chunk c
\* the early returns without the test of the silence flag
VolumeSkipped_IgnoresSilence(block, volume) ==
    pa_cvolume_channels_equal_to(volume, PA_VOLUME_NORM)

\* if (pa_memblock_is_silence(c->memblock)) return;
\* if (pa_cvolume_channels_equal_to(volume, PA_VOLUME_NORM)) return;
VolumeSkipped(block, volume) ==
    block.is_silence \/ pa_cvolume_channels_equal_to(volume, PA_VOLUME_NORM)

pa_volume_memchunk(acq, block, c, spec, volume) ==
    IF VolumeSkipped(block, volume)
    THEN [mem |-> block.mem, acq |-> acq, trace |-> <<>>]
    ELSE IF pa_cvolume_channels_equal_to(volume, PA_VOLUME_MUTED)
    THEN [mem |-> pa_silence_memchunk(block.mem, c, spec), acq |-> acq,
          trace |-> <<<<"pa_silence_memchunk", c.memblock>>>>]
    ELSE LET linear == calc_volume_table(spec.format, volume)
             acq1 == [acq EXCEPT ![c.memblock] = @ + 1]
             mem1 == do_volume(spec.format, block.mem, c.index, linear,
                               spec.channels, c.length)
             acq2 == [acq1 EXCEPT ![c.memblock] = @ - 1]
         IN [mem |-> mem1, acq |-> acq2,
             trace |-> <<<<"calc_volume", spec.format>>, <<"acquire", c.memblock>>,
                         <<"do_volume", spec.format>>, <<"release", c.memblock>>>>]

----------------------------------------------------------------------------
(* The callers' inputs *)

SampleSpecs == [format : Formats, channels : 1 .. MaxChannels]

\* the bytes of a memblock and of the destination buffer reach past the
\* longest chunk, so that a kernel running past a chunk stays in the block
MemSize(spec) == ((MaxFrames + 1) * pa_frame_size(spec)) + 4
DataSize(spec) == (MaxFrames * pa_frame_size(spec)) + 4

\* byte b (0 = most significant) of the word <<hu, lu>>
WordByte(u, b) ==
    CASE b = 0 -> u[1] \div 256
      [] b = 1 -> u[1] % 256
      [] b = 2 -> u[2] \div 256
      [] OTHER -> u[2] % 256

\* what memblock i holds: floats 1.0 and -0.5 in the float formats (the
\* values the float model is exact on), a byte ramp in the others
Content(spec, i) ==
    [o \in 0 .. (MemSize(spec) - 1) |->
        IF IsFloatFormat(spec.format)
        THEN LET x == IF ((o \div 4) + i) % 2 = 0 THEN <<1, 0>> ELSE <<-1, -1>>
             IN WordByte(FloatBits(x),
                         IF spec.format = PA_SAMPLE_FLOAT32BE THEN o % 4 ELSE 3 - (o % 4))
        ELSE ((o * 37) + (i * 101) + 11) % 256]

SilentContent(spec) == [o \in 0 .. (MemSize(spec) - 1) |-> silence_byte(spec.format)]

DataInit(spec) == [o \in 0 .. (DataSize(spec) - 1) |-> 170]

CVolumes(channels) ==
    {[c \in 0 .. (channels - 1) |-> v] : v \in {PA_VOLUME_MUTED, PA_VOLUME_NORM, 32768}}
    \cup {[c \in 0 .. (channels - 1) |-> IF c = 0 THEN PA_VOLUME_MUTED ELSE PA_VOLUME_NORM]}

\* pa_mix's (mute, volume) arguments
MuteVolumes(channels) ==
    LET all(v) == [c \in 0 .. (channels - 1) |-> v]
        mixed == [c \in 0 .. (channels - 1) |->
                     IF c = 0 THEN PA_VOLUME_MUTED ELSE PA_VOLUME_NORM]
    IN {[mute |-> FALSE, volume |-> NULL], [mute |-> FALSE, volume |-> all(PA_VOLUME_NORM)],
        [mute |-> FALSE, volume |-> all(PA_VOLUME_MUTED)], [mute |-> FALSE, volume |-> mixed],
        [mute |-> TRUE, volume |-> NULL], [mute |-> TRUE, volume |-> all(32768)]}

\* the volume of stream k: the first stream is at PA_VOLUME_NORM or muted on
\* channel 0, the others are at PA_VOLUME_NORM
StreamVolumes(channels, k) ==
    {[c \in 0 .. (channels - 1) |-> PA_VOLUME_NORM]}
    \cup (IF k = 0
          THEN {[c \in 0 .. (channels - 1) |->
                    IF c = 0 THEN PA_VOLUME_MUTED ELSE PA_VOLUME_NORM]}
          ELSE {})

\* chunk lengths: one frame, one byte short of the request, longer than it
ChunkLengths(spec, length) ==
    {l \in {pa_frame_size(spec), length - 1, length + pa_frame_size(spec)} : l >= 1}

\* pa_mix_info streams[] as the caller hands them in
MixStreams(spec, length, nstreams) ==
    {[k \in 0 .. (nstreams - 1) |->
         [chunk |-> [memblock |-> k, index |-> 0, length |-> ln[k]],
          volume |-> IF k = 0 THEN v0 ELSE CHOOSE v \in StreamVolumes(spec.channels, k) : TRUE,
          mem |-> Content(spec, k), ptr |-> NULL, linear |-> Uninit, rd |-> {}]] :
     ln \in [0 .. (nstreams - 1) -> ChunkLengths(spec, length)],
     v0 \in StreamVolumes(spec.channels, 0)}

\* the formats and kernels pa_set_mix_func is called with: a kernel of the
\* format's own sample width
SetFormats == {PA_SAMPLE_S16LE, PA_SAMPLE_S16BE}
SetKernels == {"pa_mix_s16ne_c", "pa_mix_s16re_c"}
BadFormats == {-1, PA_SAMPLE_MAX}

----------------------------------------------------------------------------
(* The state machine: the callers of mix.h *)

NoFrame == <<>>

Init ==
    /\ bigendian = FALSE
    /\ do_mix_table = do_mix_table_init
    /\ n_acquired = [b \in 0 .. (MaxStreams - 1) |-> 0]
    /\ pc = "idle"
    /\ args = NoFrame
    /\ out = NoFrame

\* a caller mixes in one of the given formats
Call_pa_mix(formats) ==
    /\ pc = "idle"
    /\ \E spec \in {sp \in SampleSpecs : sp.format \in formats}, frames \in 1 .. MaxFrames, nstreams \in 0 .. MaxStreams :
         LET length == frames * pa_frame_size(spec)
         IN \E mv \in MuteVolumes(spec.channels),
               streams \in MixStreams(spec, length, nstreams) :
              /\ pc' = "pa_mix"
              /\ args' = [streams |-> streams, nstreams |-> nstreams,
                          data |-> DataInit(spec), length |-> length, spec |-> spec,
                          volume |-> mv.volume, mute |-> mv.mute]
              /\ out' = pa_mix(do_mix_table, n_acquired, streams, nstreams,
                               DataInit(spec), length, spec, mv.volume, mv.mute)
              /\ n_acquired' = out'.acq
    /\ UNCHANGED <<bigendian, do_mix_table>>

Call_pa_volume_memchunk ==
    /\ pc = "idle"
    /\ \E spec \in SampleSpecs, frames \in 1 .. MaxFrames, is_silence \in BOOLEAN :
         \E volume \in CVolumes(spec.channels) :
            LET c == [memblock |-> 0, index |-> 0, length |-> frames * pa_frame_size(spec)]
                block == [mem |-> IF is_silence THEN SilentContent(spec)
                                  ELSE Content(spec, 0),
                          is_silence |-> is_silence]
            IN /\ pc' = "pa_volume_memchunk"
               /\ args' = [c |-> c, block |-> block, spec |-> spec, volume |-> volume]
               /\ out' = pa_volume_memchunk(n_acquired, block, c, spec, volume)
               /\ n_acquired' = out'.acq
    /\ UNCHANGED <<bigendian, do_mix_table>>

Call_pa_get_mix_func ==
    /\ pc = "idle"
    /\ \E f \in Formats \cup BadFormats :
         /\ args' = [f |-> f]
         /\ IF FormatAsserted(f)
            THEN pc' = "pa_get_mix_func" /\ out' = [ret |-> pa_get_mix_func(do_mix_table, f)]
            ELSE pc' = "aborted" /\ out' = NoFrame
    /\ UNCHANGED <<bigendian, do_mix_table, n_acquired>>

Call_pa_set_mix_func ==
    /\ pc = "idle"
    /\ \E f \in SetFormats \cup BadFormats, func \in SetKernels :
         /\ args' = [f |-> f, func |-> func]
         /\ out' = NoFrame
         /\ IF FormatAsserted(f)
            THEN pc' = "pa_set_mix_func"
                 /\ do_mix_table' = pa_set_mix_func(do_mix_table, f, func)
            ELSE pc' = "aborted" /\ UNCHANGED do_mix_table
    /\ UNCHANGED <<bigendian, n_acquired>>

\* the call returns: its frame is gone, the caller goes on
Return ==
    /\ pc \in {"pa_mix", "pa_volume_memchunk", "pa_get_mix_func", "pa_set_mix_func"}
    /\ pc' = "idle"
    /\ args' = NoFrame
    /\ out' = NoFrame
    /\ UNCHANGED <<bigendian, do_mix_table, n_acquired>>

\* callers that mix and scale with the kernels bound at start-up
Next ==
    \/ Call_pa_mix(Formats)
    \/ Call_pa_volume_memchunk
    \/ Return

Spec == Init /\ [][Next]_vars

\* callers that replace and fetch kernels, and mix in the 16 bit formats (whose
\* kernels they replace) and in one format they leave alone
TableFormats == {PA_SAMPLE_S16LE, PA_SAMPLE_S16BE, PA_SAMPLE_S24LE}

TableInit ==
    /\ bigendian \in BOOLEAN
    /\ do_mix_table = do_mix_table_init
    /\ n_acquired = [b \in 0 .. (MaxStreams - 1) |-> 0]
    /\ pc = "idle"
    /\ args = NoFrame
    /\ out = NoFrame

TableNext ==
    \/ Call_pa_get_mix_func
    \/ Call_pa_set_mix_func
    \/ Call_pa_mix(TableFormats)
    \/ Return

TableSpec == TableInit /\ [][TableNext]_vars

----------------------------------------------------------------------------
(* The kernels called directly, as a caller holding the pointer that       *)
(* pa_get_mix_func returned calls them: the streams carry their gains.     *)

NativeKernels == {"pa_mix_s16ne_c", "pa_mix_s32ne_c", "pa_mix_s24ne_c",
                  "pa_mix_s24_32ne_c", "pa_mix_float32ne_c"}
ReverseKernels == {"pa_mix_s16re_c", "pa_mix_s32re_c", "pa_mix_s24re_c",
                   "pa_mix_s24_32re_c", "pa_mix_float32re_c"}

\* whether the format of kernel k stores the most significant byte first
KernelBigEndian(k) == IF k \in ReverseKernels THEN ~bigendian ELSE bigendian

\* the largest and the smallest sample of kernel k's format, most
\* significant byte first
MaxSample(k) ==
    CASE k = "pa_mix_u8_c" -> <<255>>
      [] k = "pa_mix_ulaw_c" -> <<128>>
      [] k = "pa_mix_alaw_c" -> <<170>>
      [] k \in {"pa_mix_s16ne_c", "pa_mix_s16re_c"} -> <<127, 255>>
      [] k \in {"pa_mix_s24ne_c", "pa_mix_s24re_c"} -> <<127, 255, 255>>
      [] k \in {"pa_mix_s32ne_c", "pa_mix_s32re_c"} -> <<127, 255, 255, 255>>
      [] k \in {"pa_mix_s24_32ne_c", "pa_mix_s24_32re_c"} -> <<0, 127, 255, 255>>
      [] OTHER -> <<63, 128, 0, 0>>

MinSample(k) ==
    CASE k = "pa_mix_u8_c" -> <<0>>
      [] k = "pa_mix_ulaw_c" -> <<0>>
      [] k = "pa_mix_alaw_c" -> <<42>>
      [] k \in {"pa_mix_s16ne_c", "pa_mix_s16re_c"} -> <<128, 0>>
      [] k \in {"pa_mix_s24ne_c", "pa_mix_s24re_c"} -> <<128, 0, 0>>
      [] k \in {"pa_mix_s32ne_c", "pa_mix_s32re_c"} -> <<128, 0, 0, 0>>
      [] k \in {"pa_mix_s24_32ne_c", "pa_mix_s24_32re_c"} -> <<0, 128, 0, 0>>
      [] OTHER -> <<191, 128, 0, 0>>

\* sample number n of the pattern "ramp" in stream i
RampSample(k, i, n) ==
    LET w == DataStep(k)
        b(j) == (((((n * w) + j) * 37) + (i * 101)) + 11) % 256
    IN CASE k \in FloatKernels -> IF (n + i) % 2 = 0 THEN <<63, 128, 0, 0>> ELSE <<191, 0, 0, 0>>
         [] k \in {"pa_mix_s24_32ne_c", "pa_mix_s24_32re_c"} -> <<0, b(1), b(2), b(3)>>
         [] OTHER -> [j \in 1 .. w |-> b(j - 1)]

Patterns == {"max", "min", "ramp"}

\* the bytes of stream i: samples of the pattern, in the format's byte order
PatternBytes(k, pattern, i, size) ==
    [o \in 0 .. (size - 1) |->
        LET w == DataStep(k)
            smp == CASE pattern = "max" -> MaxSample(k)
                     [] pattern = "min" -> MinSample(k)
                     [] OTHER -> RampSample(k, i, o \div w)
        IN smp[IF KernelBigEndian(k) THEN (o % w) + 1 ELSE w - (o % w)]]

GainOptions == {"unity", "half", "high", "zero0", "spread"}

\* m->linear[channel] of stream i: Q16.16 in .i, a float in .f
GainOf(k, option, i, channel) ==
    LET isf == k \in FloatKernels
        unity == IF isf THEN <<1, 0>> ELSE 65536
        half == IF isf THEN <<1, -1>> ELSE 32768
        zero == IF isf THEN <<0, 0>> ELSE 0
        high == CASE isf -> <<1, 3>>
                  [] k \in Int32Kernels -> 2147418112
                  [] OTHER -> 131072
    IN CASE option = "unity" -> unity
         [] option = "half" -> half
         [] option = "high" -> high
         [] option = "zero0" -> IF channel = 0 /\ i = 0 THEN zero ELSE unity
         [] OTHER -> CASE (i + channel) % 3 = 0 -> unity
                       [] (i + channel) % 3 = 1 -> half
                       [] OTHER -> zero

KernelInputs ==
    {[k |-> k, nstreams |-> n, channels |-> ch, end |-> fr * ch * DataStep(k),
      pattern |-> pt, gain |-> g] :
     k \in Kernels, n \in 1 .. KMaxStreams, ch \in 1 .. MaxChannels,
     fr \in 1 .. MaxFrames, pt \in Patterns, g \in GainOptions}

KernelStreams(a) ==
    [i \in 0 .. (a.nstreams - 1) |->
        [mem |-> PatternBytes(a.k, a.pattern, i, a.end + 4), ptr |-> 0,
         linear |-> [c \in 0 .. (a.channels - 1) |-> GainOf(a.k, a.gain, i, c)],
         rd |-> {}]]

KernelData(a) == [o \in 0 .. (a.end + 3) |-> 170]

KernelInit ==
    /\ bigendian \in BOOLEAN
    /\ do_mix_table = do_mix_table_init
    /\ n_acquired = [b \in 0 .. (MaxStreams - 1) |-> 0]
    /\ pc = "kernel"
    /\ args \in KernelInputs
    /\ out = NoFrame

Call_kernel ==
    /\ pc = "kernel"
    /\ pc' = "kernel_done"
    /\ out' = do_mix(args.k, KernelStreams(args), args.nstreams, args.channels,
                     KernelData(args), args.end)
    /\ UNCHANGED <<bigendian, do_mix_table, n_acquired, args>>

KernelSpec == KernelInit /\ [][Call_kernel]_vars

----------------------------------------------------------------------------
(* The volume linearizers called through calc_volume_table on a scratch    *)
(* vector linear[PA_CHANNELS_MAX + VOLUME_PADDING], as pa_volume_memchunk  *)
(* calls them: out.linear is the vector after the call.                    *)

\* a caller about to linearize a volume of 1 .. PA_CHANNELS_MAX channels
\* whose levels are all PA_VOLUME_NORM, rise with the channel, alternate
\* between PA_VOLUME_NORM and PA_VOLUME_MUTED, or fall with the channel
LinearInit ==
    /\ bigendian = FALSE
    /\ do_mix_table = do_mix_table_init
    /\ n_acquired = [b \in 0 .. (MaxStreams - 1) |-> 0]
    /\ pc = "linearizer"
    /\ args \in {[f |-> f, pattern |-> p,
                  volume |-> [c \in 0 .. (n - 1) |->
                      CASE p = "norm" -> PA_VOLUME_NORM
                        [] p = "rising" -> (c % 5) * 32768
                        [] p = "alternating" ->
                              IF c % 2 = 0 THEN PA_VOLUME_NORM ELSE PA_VOLUME_MUTED
                        [] OTHER -> ((((n - 1) - c) % 4) + 1) * 32768]] :
                 f \in Formats, n \in 1 .. PA_CHANNELS_MAX,
                 p \in {"norm", "rising", "alternating", "falling"}}
    /\ out = NoFrame

\* calc_volume_table[spec->format]((void *) linear, volume);
Call_calc_volume_table ==
    /\ pc = "linearizer"
    /\ pc' = "calc_volume_table"
    /\ out' = [linear |-> calc_volume_table(args.f, args.volume)]
    /\ UNCHANGED <<bigendian, do_mix_table, n_acquired, args>>

LinearSpec == LinearInit /\ [][Call_calc_volume_table]_vars

----------------------------------------------------------------------------
(* Properties of pa_mix and pa_volume_memchunk, under Spec *)

MinOf(S) == CHOOSE x \in S : \A y \in S : x <= y

Events(trace, name) == {i \in 1 .. Len(trace) : trace[i][1] = name}

\* the arguments of the current pa_mix call take the silence path
SilenceArgs ==
    \/ args.mute
    \/ args.nstreams = 0
    \/ (args.volume # NULL /\ \A c \in DOMAIN args.volume : args.volume[c] = PA_VOLUME_MUTED)

\* C1: when mute is set, or the output volume is muted on every channel, or
\* there are no streams, pa_mix fills the destination bytes [0, length) with
\* the format's silence pattern, returns the requested length and acquires
\* and releases nothing; an absent volume alone does not silence the mix.
C1_SilencePath ==
    pc = "pa_mix" =>
        /\ SilenceArgs =>
              /\ \A o \in 0 .. (args.length - 1) :
                     out.data[o] = silence_byte(args.spec.format)
              /\ out.ret = args.length
              /\ out.trace = <<>>
              /\ out.call = NULL
        /\ (args.volume = NULL /\ ~args.mute /\ args.nstreams >= 1) =>
              LET unity == pa_mix(do_mix_table, n_acquired, args.streams, args.nstreams,
                                  args.data, args.length, args.spec,
                                  [c \in 0 .. (args.spec.channels - 1) |-> PA_VOLUME_NORM],
                                  FALSE)
              IN /\ Cardinality(Events(out.trace, "do_mix")) = 1
                 /\ out.ret = unity.ret
                 /\ out.data = unity.data

\* a mix of streams silenced by the output volume alone, in a format whose
\* silence byte is not zero
C1_Witness ==
    /\ pc = "pa_mix"
    /\ ~args.mute /\ args.nstreams >= 1 /\ args.volume # NULL
    /\ args.spec.format = PA_SAMPLE_ALAW
    /\ \A c \in DOMAIN args.volume : args.volume[c] = PA_VOLUME_MUTED
    /\ args.streams[0].chunk.length < args.length
    /\ out.ret = args.length
    /\ out.data[args.length - 1] = 213

\* C2: on the non-silence path pa_mix returns the minimum of the requested
\* length and the streams' chunk lengths, writes exactly the destination
\* bytes [0, returned length) and leaves the bytes past them as they were.
C2_LengthAndWrites ==
    (pc = "pa_mix" /\ ~SilenceArgs) =>
        /\ out.ret = MinOf({args.length} \cup
                           {args.streams[k].chunk.length : k \in 0 .. (args.nstreams - 1)})
        /\ out.wr = 0 .. (out.ret - 1)
        /\ \A o \in DOMAIN out.data : o >= out.ret => out.data[o] = args.data[o]

\* C3: for every format and every frame-aligned requested length, whatever
\* the streams' chunk lengths are, the kernel reads no stream byte at an
\* offset >= the stream's chunk length and writes no destination byte at an
\* offset >= the effective mix length.
C3_InBounds ==
    (pc = "pa_mix" /\ ~SilenceArgs /\ pa_frame_aligned(args.length, args.spec)) =>
        /\ \A k \in 0 .. (args.nstreams - 1) :
               \A o \in out.streams[k].rd : o < args.streams[k].chunk.length
        /\ \A o \in out.wr : o < out.ret

\* the trace of a pa_mix call on the non-silence path: every stream acquired
\* once, then the gains, then the kernel, then every stream released once
BalancedMixTrace(trace, nstreams) ==
    LET calc == Events(trace, "calc_stream_volumes")
        mix == Events(trace, "do_mix")
    IN /\ Cardinality(calc) = 1 /\ Cardinality(mix) = 1
       /\ Len(trace) = (2 * nstreams) + 2
       /\ \A k \in 0 .. (nstreams - 1) :
             /\ Cardinality({i \in Events(trace, "acquire") : trace[i][2] = k}) = 1
             /\ Cardinality({i \in Events(trace, "release") : trace[i][2] = k}) = 1
       /\ \A i \in Events(trace, "acquire") : \A j \in calc \cup mix : i < j
       /\ \A i \in Events(trace, "release") : \A j \in calc \cup mix : j < i

\* C4: acquire and release are balanced in every call: on the non-silence
\* path of pa_mix each stream's buffer is acquired once before the gains and
\* the kernel and released once after the kernel; on the silence path nothing
\* is acquired or released; no buffer stays acquired after any sequence of
\* pa_mix and pa_volume_memchunk calls.
C4_AcquireReleaseBalanced ==
    /\ \A b \in DOMAIN n_acquired : n_acquired[b] = 0
    /\ pc = "pa_mix" =>
          IF SilenceArgs THEN out.trace = <<>>
          ELSE BalancedMixTrace(out.trace, args.nstreams)
    /\ pc = "pa_volume_memchunk" =>
          /\ Cardinality(Events(out.trace, "acquire")) =
                Cardinality(Events(out.trace, "release"))
          /\ \A i \in Events(out.trace, "acquire") :
                \E j \in Events(out.trace, "release") :
                    i < j /\ out.trace[j][2] = out.trace[i][2]

\* a mix of two streams that acquired and released both
C4_Witness ==
    /\ pc = "pa_mix"
    /\ args.nstreams = 2
    /\ Cardinality(Events(out.trace, "acquire")) = 2
    /\ Cardinality(Events(out.trace, "release")) = 2
    /\ out.trace[Len(out.trace)] = <<"release", 1>>

AllChannels(volume, v) == \A c \in DOMAIN volume : volume[c] = v

\* C5: pa_volume_memchunk leaves the buffer unchanged, without acquiring it
\* or running a volume kernel, when the memblock is flagged as silence or the
\* volume is PA_VOLUME_NORM on every channel; when the block is not flagged
\* and the volume is muted on every channel the whole chunk becomes the
\* silence pattern and no volume kernel runs; the kernel runs only when none
\* of the three holds.
C5_VolumeShortCircuits ==
    pc = "pa_volume_memchunk" =>
        LET silent == args.block.is_silence
            unity == AllChannels(args.volume, PA_VOLUME_NORM)
            muted == AllChannels(args.volume, PA_VOLUME_MUTED)
            ran == Events(out.trace, "do_volume") # {}
        IN /\ (silent \/ unity) => (out.mem = args.block.mem /\ out.trace = <<>>)
           /\ (~silent /\ muted) =>
                 /\ \A o \in 0 .. (args.c.length - 1) :
                        out.mem[o] = silence_byte(args.spec.format)
                 /\ ~ran
           /\ ran <=> ~(silent \/ unity \/ muted)

\* a block flagged as silence, passed with a volume that would change it
C5_Witness ==
    /\ pc = "pa_volume_memchunk"
    /\ args.block.is_silence
    /\ AllChannels(args.volume, 32768)
    /\ args.spec.format = PA_SAMPLE_U8
    /\ out.mem = args.block.mem
    /\ out.trace = <<>>

----------------------------------------------------------------------------
(* Properties of the dispatch table, under TableSpec *)

\* C6: pa_set_mix_func(f, k) binds k to f and leaves every other binding as
\* it was; nothing else changes a binding; pa_get_mix_func(f) returns the
\* binding of f; pa_mix on the non-silence path calls the kernel bound to its
\* format once, with the call's streams, nstreams, channel count and the
\* destination range [data, data + actual length); both accessors abort on a
\* format outside [0, PA_SAMPLE_MAX) and leave the table alone.
C6_State ==
    /\ pc = "pa_get_mix_func" => out.ret = do_mix_table[args.f]
    /\ pc \in {"pa_get_mix_func", "pa_set_mix_func"} => args.f \in Formats
    /\ (pc = "pa_mix" /\ ~SilenceArgs) =>
          /\ Cardinality(Events(out.trace, "do_mix")) = 1
          /\ out.call.kernel = do_mix_table[args.spec.format]
          /\ out.call.nstreams = args.nstreams
          /\ out.call.channels = args.spec.channels
          /\ out.call.data = 0 /\ out.call.end = out.ret
          /\ \A k \in 0 .. (args.nstreams - 1) :
                /\ out.call.streams[k].chunk = args.streams[k].chunk
                /\ out.call.streams[k].mem = args.streams[k].mem
                /\ out.call.streams[k].ptr = args.streams[k].chunk.index

C6_Step ==
    /\ (pc = "idle" /\ pc' = "pa_set_mix_func") =>
          /\ do_mix_table'[args'.f] = args'.func
          /\ \A g \in Formats \ {args'.f} : do_mix_table'[g] = do_mix_table[g]
    /\ ~(pc = "idle" /\ pc' = "pa_set_mix_func") => do_mix_table' = do_mix_table
    /\ (pc = "idle" /\ pc' = "aborted") => args'.f \notin Formats
    /\ (pc = "idle" /\ pc' = "pa_get_mix_func") => out'.ret = do_mix_table[args'.f]

C6_Dispatch == [](C6_State) /\ [][C6_Step]_vars

\* a mix in a 16 bit format after its kernel was replaced: the replacement ran
C6_Witness ==
    /\ pc = "pa_mix" /\ ~SilenceArgs
    /\ args.spec.format = PA_SAMPLE_S16LE
    /\ do_mix_table[PA_SAMPLE_S16LE] # do_mix_table_init[PA_SAMPLE_S16LE]
    /\ out.call.kernel = do_mix_table[PA_SAMPLE_S16LE]
    /\ do_mix_table[PA_SAMPLE_S16BE] = do_mix_table_init[PA_SAMPLE_S16BE]

----------------------------------------------------------------------------
(* Properties of the kernels, under KernelSpec *)

\* the number of output samples of the current kernel call
OutSamples == args.end \div DataStep(args.k)

\* the gain-scaled sample as an unbounded integer, a wide value
TrueScaled(k, v, cv) ==
    CASE k = "pa_mix_u8_c" -> MulShr16(WInt(v), cv)
      [] k \in Int32Kernels -> WInt(ScaleHiLo(v, cv))
      [] OTHER -> MulShr16(v, cv)

\* the unbounded sum, for output slot n, of the gain-scaled samples number n
\* of the streams i .. nstreams - 1
RECURSIVE TrueSum(_, _, _, _)
TrueSum(k, streams, n, i) ==
    IF i \notin DOMAIN streams THEN WZero
    ELSE LET cv == streams[i].linear[n % args.channels]
             rest == TrueSum(k, streams, n, i + 1)
         IN IF GainPositive(k, cv)
            THEN WAdd(TrueScaled(k, Load(k, streams[i].mem, n * DataStep(k)), cv), rest)
            ELSE rest

\* a wide value saturated to the range of the format of kernel k
Saturated(k, w) ==
    LET hi == IF k = "pa_mix_u8_c" THEN 127 ELSE 32767
        lo == IF k = "pa_mix_u8_c" THEN -128 ELSE -32768
    IN CASE k \in Int32Kernels ->
               IF w[1] > 0 \/ (w[1] = 0 /\ w[2] > hi) THEN hi
               ELSE IF w[1] < -1 \/ (w[1] = -1 /\ w[2] - 65536 < lo) THEN lo
               ELSE (w[1] * 65536) + w[2]
         [] OTHER ->
               IF w[1] > 32767 THEN <<32767, 65535>>
               ELSE IF w[1] < -32768 THEN <<-32768, 0>>
               ELSE w

\* the integer kernels whose cursor steps by the sample width
AlignedIntegerKernels == (Int32Kernels \cup Int64Kernels) \ {"pa_mix_s24_32re_c"}

\* C7: in every integer format, for any number of streams, each written
\* sample is the unbounded sum of the gain-scaled samples saturated to the
\* format's range: the maximum when the sum is above it, the minimum when it
\* is below, the sum itself otherwise; the accumulator never wraps.
C7_Saturation ==
    (pc = "kernel_done" /\ args.k \in AlignedIntegerKernels) =>
        \A n \in 0 .. (OutSamples - 1) :
            LET d == n * DataStep(args.k)
                expected == Store(args.k, KernelData(args), d,
                                  Saturated(args.k, TrueSum(args.k, KernelStreams(args), n, 0)))
            IN \A o \in d .. (d + DataStep(args.k) - 1) : out.data[o] = expected[o]

\* the bytes of every sample of width w put in the opposite order
SwapSamples(mem, w, end) ==
    [o \in DOMAIN mem |-> IF o < end THEN mem[((o \div w) * w) + ((w - 1) - (o % w))]
                          ELSE mem[o]]

ReverseOf(k) ==
    CASE k = "pa_mix_s16ne_c" -> "pa_mix_s16re_c"
      [] k = "pa_mix_s24ne_c" -> "pa_mix_s24re_c"
      [] k = "pa_mix_s24_32ne_c" -> "pa_mix_s24_32re_c"
      [] OTHER -> "pa_mix_s32re_c"

\* C8: for the 16 bit, packed 24 bit, 24-in-32 and 32 bit formats, the
\* reversed-endian kernel run on the per-sample byte-swapped streams writes
\* the per-sample byte-swap of what the native-endian kernel writes from the
\* original streams, and both leave every stream's cursor at the same offset.
C8_ReverseEqualsSwappedNative ==
    (pc = "kernel_done" /\ args.k \in (NativeKernels \ FloatKernels)) =>
        LET w == DataStep(args.k)
            swapped == [i \in DOMAIN KernelStreams(args) |->
                           [KernelStreams(args)[i] EXCEPT
                               !.mem = SwapSamples(@, w, args.end)]]
            re == do_mix(ReverseOf(args.k), swapped, args.nstreams, args.channels,
                         KernelData(args), args.end)
        IN /\ \A o \in 0 .. (args.end - 1) :
                  re.data[o] = SwapSamples(out.data, w, args.end)[o]
           /\ \A i \in 0 .. (args.nstreams - 1) : re.streams[i].ptr = out.streams[i].ptr

\* the kernels of the lossless integer formats
LosslessKernels == {"pa_mix_s16ne_c", "pa_mix_s16re_c", "pa_mix_s24ne_c", "pa_mix_s24re_c",
                    "pa_mix_s24_32ne_c", "pa_mix_s24_32re_c",
                    "pa_mix_s32ne_c", "pa_mix_s32re_c"}

\* C9: one stream with gain 0x10000 on every channel is copied byte for byte
\* to the destination over the mixed length, in the 16 bit, packed 24 bit,
\* 24-in-32 and 32 bit formats of both byte orders.
C9_UnityIsIdentity ==
    (pc = "kernel_done" /\ args.k \in LosslessKernels
       /\ args.nstreams = 1 /\ args.gain = "unity") =>
        \A o \in 0 .. (args.end - 1) : out.data[o] = KernelStreams(args)[0].mem[o]

\* the byte width of one sample of the format of kernel k
SampleWidth(k) ==
    CASE k \in {"pa_mix_u8_c", "pa_mix_alaw_c", "pa_mix_ulaw_c"} -> 1
      [] k \in {"pa_mix_s16ne_c", "pa_mix_s16re_c"} -> 2
      [] k \in {"pa_mix_s24ne_c", "pa_mix_s24re_c"} -> 3
      [] OTHER -> 4

\* C10: in every kernel each stream's cursor advances by the format's sample
\* width per output slot (4 for 24-in-32, 32 bit and float), whether or not
\* its gain is zero, so after n output samples every cursor is at n times the
\* sample width, and a stream with zero gain on a channel is not read for
\* that channel's slots.
C10_CursorAdvance ==
    pc = "kernel_done" =>
        \A i \in 0 .. (args.nstreams - 1) :
            /\ out.streams[i].ptr = OutSamples * SampleWidth(args.k)
            /\ \A n \in 0 .. (OutSamples - 1) :
                   LET cv == KernelStreams(args)[i].linear[n % args.channels]
                       bytes == (n * SampleWidth(args.k)) ..
                                (((n + 1) * SampleWidth(args.k)) - 1)
                   IN IF GainPositive(args.k, cv) THEN bytes \subseteq out.streams[i].rd
                      ELSE bytes \cap out.streams[i].rd = {}

\* the sum for output slot n, held in int32_t, over the streams i ..
\* nstreams - 1 with a positive gain, of the unbiased 8 bit sample scaled as
\* ((sample * gainLow) >> 16) + sample * gainHigh
RECURSIVE HiLoSum(_, _, _)
HiLoSum(streams, n, i) ==
    IF i \notin DOMAIN streams THEN 0
    ELSE LET cv == streams[i].linear[n % args.channels]
             rest == HiLoSum(streams, n, i + 1)
         IN IF cv > 0 THEN Add32(ScaleHiLo(streams[i].mem[n] - 128, cv), rest)
            ELSE rest

\* every product sample * gain of the call fits in int32_t: the samples are
\* in -128 .. 127, so the gains are below 2^24
ProductsFit(streams) ==
    \A i \in DOMAIN streams : \A c \in DOMAIN streams[i].linear :
        streams[i].linear[c] < 16777216

----------------------------------------------------------------------------
(* Properties of the volume linearizers, under LinearSpec *)

\* C12: after either linearizer ran on a volume of n channels, 1 <= n <= 32,
\* slots 0 .. n-1 hold the linearised levels of channels 0 .. n-1 (the level
\* times 65536 rounded in the integer representation, the level itself in
\* the float one), slot n+i equals slot i of the finished vector for every i
\* in 0 .. 31, so slot j equals slot j mod n for every j below n+32, the
\* padding does not repeat the last channel where the first channel differs
\* from it, and no slot at n+32 or above is written.
C12_CyclicPadding ==
    pc = "calc_volume_table" =>
        LET n == Cardinality(DOMAIN args.volume)
            level(c) == (args.volume[c] \div 32768) * (args.volume[c] \div 32768)
                           * (args.volume[c] \div 32768)
        IN /\ n \in 1 .. 32
           /\ \A c \in 0 .. (n - 1) :
                  out.linear[c] = IF IsFloatFormat(args.f) THEN FNorm(<<level(c), -3>>)
                                  ELSE level(c) * 8192
           /\ \A i \in 0 .. 31 : out.linear[n + i] = out.linear[i]
           /\ \A j \in 0 .. (n + 31) : out.linear[j] = out.linear[j % n]
           /\ (n >= 2 /\ out.linear[0] # out.linear[n - 1]) =>
                  out.linear[n] # out.linear[n - 1]
           /\ \A j \in DOMAIN out.linear : j >= n + 32 => out.linear[j] = Uninit

\* three channels at rising levels 0, 1/8 and 1 in the integer
\* representation: slot 3 holds the first channel's 0, the last padded slot
\* 34 the second channel's 8192, slot 35 is untouched
C12_Witness ==
    /\ pc = "calc_volume_table"
    /\ args.f = PA_SAMPLE_S16LE /\ args.pattern = "rising"
    /\ Cardinality(DOMAIN args.volume) = 3
    /\ out.linear[2] = 65536
    /\ out.linear[3] = 0
    /\ out.linear[34] = 8192
    /\ out.linear[35] = Uninit

====
